---- MODULE Spec2Model ----
(***************************************************************************)
(* Model of the SocketIO chat core of src/main.py: the user->room map,     *)
(* the typing map, the transport's broadcast groups, the messages table    *)
(* and the five event handlers.                                            *)
(*                                                                         *)
(* Handlers run as eventlet greenlets (main.py:5-6, 40): a handler runs    *)
(* without interruption until it waits for the database, and steps of      *)
(* different handlers interleave there.  on_join is cut before its history *)
(* query, handle_message between the INSERT and the outcome of the COMMIT. *)
(* handle_disconnect and the typing handlers make no database call and are *)
(* single steps.  A connection starts a handler when its last one has      *)
(* returned, except in SpecRapid, where a join may arrive while an earlier *)
(* join of the connection still waits for its history query.  An event     *)
(* that arrives under the sid of a closed socket reaches no handler.       *)
(*                                                                         *)
(* The database: a COMMIT may fail (the except branch, main.py:337-341);   *)
(* queries succeed.  The clock read by the timestamp default advances      *)
(* between any two INSERTs.                                                *)
(***************************************************************************)
EXTENDS Integers, Sequences, FiniteSets

\* ---------------------------------------------------------------- bounds
\* how many send_message handlers may reach the INSERT in one behaviour
MaxSends == 1
\* the same, in the behaviours of SpecRace (sends racing each other)
MaxRaceSends == 2
\* how many earlier joins of one connection may still wait for their history
\* query when the connection joins again
MaxPending == 1

\* ------------------------------------------------------ program constants
\* main.py:308  len(content) > 500
MaxContentLen == 500
\* main.py:261  .limit(50)
HistoryLimit == 50

\* ------------------------------------------------------------ the universe
Conns == {"c1", "c2"}
Users == {"u1", "u2"}
Rooms == {"A", "B"}
NoUser == "no_user"
NoRoom == "no_room"

\* The identity a connection's session may carry (session.get("user_id"),
\* copied from the HTTP session when the socket connects).  c1 is a socket
\* of user u1; c2 is a second socket of the same logged-in browser, or a
\* socket of another user, or a socket opened without a login.
SessionChoices(c) ==
    IF c = "c1" THEN {"u1"} ELSE {"u1", "u2", NoUser}

\* rows of the users table (created at login, never deleted by this code)
users == Users

\* ---------------------------------------------------------------- strings
\* A string is kept run-length encoded: a sequence of runs <<ch, n>>, n >= 1
\* copies of the character ch, adjacent runs of different characters.  The
\* string operations below are the Python ones computed on that encoding.
Run(ch, n) == << ch, n >>

\* len(s)
RECURSIVE len(_)
len(s) == IF s = <<>> THEN 0 ELSE s[1][2] + len(Tail(s))

\* str.strip(): drop leading and trailing whitespace
strip(s) ==
    LET keep == {i \in 1..Len(s) : s[i][1] # " "}
    IN  IF keep = {} THEN <<>>
        ELSE LET lo == CHOOSE i \in keep : \A j \in keep : i <= j
                 hi == CHOOSE i \in keep : \A j \in keep : j <= i
             IN  SubSeq(s, lo, hi)

\* s[:n]
RECURSIVE Prefix(_, _)
Prefix(s, n) ==
    IF s = <<>> \/ n <= 0 THEN <<>>
    ELSE IF s[1][2] <= n THEN << s[1] >> \o Prefix(Tail(s), n - s[1][2])
         ELSE << Run(s[1][1], n) >>

\* content[:500]
Truncate(s) == Prefix(s, MaxContentLen)

\* the data.get('content', '') values a client sends: "  " and
\* " " + 500 * "a" ...
PlainContents ==
    { << Run(" ", 2) >>,
      << Run(" ", 1), Run("a", MaxContentLen) >> }

\* ... and "b" + 500 * "a" + " "
RawContents ==
    PlainContents \cup { << Run("b", 1), Run("a", MaxContentLen), Run(" ", 1) >> }

\* ------------------------------------------------------------------ state
VARIABLES
    live,                   \* connections whose transport is open
    closed,                 \* connections whose transport was closed
    session,                \* connection -> session user_id (or NoUser)
    user_room_map,          \* main.py:43, user_id -> room (NoRoom: no key)
    typing_users_in_rooms,  \* main.py:46, room -> user_ids typing there
    groups,                 \* the transport's rooms: room -> member sids
    messages,               \* committed rows of the messages table
    clock,                  \* the server clock read by Message.timestamp
    nsends,                 \* rows inserted so far in this behaviour
    pc,                     \* connection -> position of its running handler
    loc,                    \* connection -> locals of its running handler
    out,                    \* the events emitted by the last step, in order
    last                    \* what the last step was

vars == << live, closed, session, user_room_map, typing_users_in_rooms, groups,
           messages, clock, nsends, pc, loc, out, last >>

NoMsg == [id |-> 0, room_name |-> NoRoom, user_id |-> NoUser,
          content |-> <<>>, timestamp |-> 0]

\* the locals of a connection's handler; more: the rooms of earlier on_join
\* handlers of the connection that still wait for their history query
NoLoc == [room |-> NoRoom, rawlen |-> 0, was |-> FALSE, row |-> NoMsg,
          more |-> <<>>]

\* class Message: one row
Message(id, room, user, content, ts) ==
    [id |-> id, room_name |-> room, user_id |-> user,
     content |-> content, timestamp |-> ts]

\* rows that were in the table before the behaviour starts: n messages "hi"
\* in room A, written one per clock tick
PriorDb(n) ==
    [i \in 1..n |-> Message(i, "A", "u1", << Run("h", 1), Run("i", 1) >>, i)]

\* an emitted event.  to: the open sids it is addressed to; room: the group
\* it was sent to (NoRoom for a unicast to the sender); tag: which message
\* or flag it carries; msg: the primary key of the row it serialises (0:
\* none); hist: the primary keys of the rows of a message_history, in the
\* order sent; bound: the sender's user_room_map entry at the moment of the
\* emit
Ev(event, to, room, tag, msg, hist, bound) ==
    [event |-> event, to |-> to, room |-> room, tag |-> tag,
     msg |-> msg, hist |-> hist, bound |-> bound]

\* what the last step was.  arg: the room the client asked for; old: the
\* room the handler resolved from user_room_map when its event arrived;
\* was: whether the user was in the typing set of that room at that
\* moment; rawlen: length of the stripped content before any cut; msg: the
\* primary key of the row the step handled
Step(op, c, arg, old, was, rawlen, msg) ==
    [op |-> op, conn |-> c, arg |-> arg, old |-> old, was |-> was,
     rawlen |-> rawlen, msg |-> msg]

\* the server starts: no socket, empty maps, n rows already in the table
InitWith(n) ==
    /\ live = {}
    /\ closed = {}
    /\ session = [c \in Conns |-> NoUser]
    /\ user_room_map = [u \in Users |-> NoRoom]
    /\ typing_users_in_rooms = [r \in Rooms |-> {}]
    /\ groups = [r \in Rooms |-> {}]
    /\ messages = PriorDb(n)
    /\ clock = n + 1
    /\ nsends = 0
    /\ pc = [c \in Conns |-> "idle"]
    /\ loc = [c \in Conns |-> NoLoc]
    /\ out = <<>>
    /\ last = Step("init", "c1", NoRoom, NoRoom, FALSE, 0, 0)

Init == InitWith(0)

\* a server restarted over a table that holds exactly a full history page
\* of room A
InitBacklog == InitWith(HistoryLimit)

\* ---------------------------------------------------------- the transport
\* flask_socketio.join_room / leave_room for the sid of the running handler
join_room(g, c, r) == [g EXCEPT ![r] = @ \cup {c}]
leave_room(g, c, r) == [g EXCEPT ![r] = @ \ {c}]

\* a broadcast that ignores the room and reaches every open socket
ToRoom_Everyone(g, r, open) == open

\* emit(..., room=r): every member of the group; a closed socket gets nothing
ToRoom(g, r, open) == g[r] \cap open
\* emit(..., room=r, include_self=False)
ToRoomExceptSelf(g, r, c, open) == (g[r] \ {c}) \cap open
\* emit(...) with no room: the sender's own sid
ToSelf(c, open) == {c} \cap open

\* user_room_map.get(user_id)
resolve(c) == IF session[c] = NoUser THEN NoRoom ELSE user_room_map[session[c]]

\* an error that is emitted to every open socket instead of the sender
ErrorEv_ToAll(c, tag) ==
    Ev("error_message", live, NoRoom, tag, 0, <<>>, resolve(c))

\* emit('error_message', ...) with no room: to the sender alone
ErrorEv(c, tag) ==
    Ev("error_message", ToSelf(c, live), NoRoom, tag, 0, <<>>, resolve(c))

\* a socket opens under a fresh sid (a sid is never used again once closed);
\* its session is the login it was opened with
Connect(c) ==
    /\ c \notin live \cup closed
    /\ \E u \in SessionChoices(c) : session' = [session EXCEPT ![c] = u]
    /\ live' = live \cup {c}
    /\ out' = <<>>
    /\ last' = Step("connect", c, NoRoom, NoRoom, FALSE, 0, 0)
    /\ UNCHANGED << closed, user_room_map, typing_users_in_rooms, groups,
                    messages, clock, nsends, pc, loc >>

\* the locals of connection c once its handler has returned, or before one
\* starts
Done(c) == [NoLoc EXCEPT !.more = loc[c].more]

\* ------------------------------------------------------------------ join
\* on_join, "1." and "2.": the transport groups after leave_room(old_room),
\* done only when the user's recorded room differs, and join_room(room_name)
\* (main.py:238-247)
GroupsAfterLeave(c, room_name) ==
    LET old_room == resolve(c)
    IN  IF old_room # NoRoom /\ old_room # room_name
        THEN leave_room(groups, c, old_room)
        ELSE groups

GroupsAfterJoin(c, room_name) ==
    join_room(GroupsAfterLeave(c, room_name), c, room_name)

\* JoinEvents with the binding applied first: the "joined" status goes out
\* before the "left" one, which is emitted with the new binding in place
JoinEvents_BindFirst(c, room_name) ==
    LET old_room == resolve(c)
        left == IF old_room # NoRoom /\ old_room # room_name
                THEN << Ev("status_message",
                           ToRoom(GroupsAfterLeave(c, room_name), old_room, live),
                           old_room, "left", 0, <<>>, room_name) >>
                ELSE <<>>
        joined == Ev("status_message",
                     ToRoomExceptSelf(GroupsAfterJoin(c, room_name),
                                      room_name, c, live),
                     room_name, "joined", 0, <<>>, room_name)
    IN  << joined >> \o left

\* on_join: the status messages, in the order emitted (main.py:238-254)
JoinEvents(c, room_name) ==
    LET old_room == resolve(c)
        left == IF old_room # NoRoom /\ old_room # room_name
                THEN << Ev("status_message",
                           ToRoom(GroupsAfterLeave(c, room_name), old_room, live),
                           old_room, "left", 0, <<>>, old_room) >>
                ELSE <<>>
        joined == Ev("status_message",
                     ToRoomExceptSelf(GroupsAfterJoin(c, room_name),
                                      room_name, c, live),
                     room_name, "joined", 0, <<>>, room_name)
    IN  left \o << joined >>

\* on_join up to the history query (main.py:229-256)
on_join(c, room_name) ==
    LET user_id == session[c]
    IN  /\ c \in live
        /\ pc[c] = "idle"
        /\ last' = Step("join", c, room_name, resolve(c), FALSE, 0, 0)
        /\ IF user_id = NoUser \/ room_name = NoRoom
           THEN /\ out' = << ErrorEv(c, "join_failed") >>
                /\ UNCHANGED << user_room_map, groups, pc, loc >>
           ELSE /\ groups' = GroupsAfterJoin(c, room_name)
                /\ user_room_map' = [user_room_map EXCEPT ![user_id] = room_name]
                /\ out' = JoinEvents(c, room_name)
                /\ pc' = [pc EXCEPT ![c] = "join_history"]
                /\ loc' = [loc EXCEPT ![c] = [Done(c) EXCEPT !.room = room_name]]
        /\ UNCHANGED << live, closed, session, typing_users_in_rooms, messages,
                        clock, nsends >>

\* ORDER BY timestamp DESC: rows with later timestamps first.  rank[i] is
\* the place of rows[i] in the result (no two rows of the model share a
\* timestamp).  SubSeq(f, 1, n) is f, computed once.
OrderByTimestampDesc(rows) ==
    LET n == Len(rows)
        rank == SubSeq([i \in 1..n |->
                    1 + Cardinality({j \in 1..n :
                           \/ rows[j].timestamp > rows[i].timestamp
                           \/ rows[j].timestamp = rows[i].timestamp /\ j > i})],
                    1, n)
    IN  SubSeq([k \in 1..n |-> rows[CHOOSE i \in 1..n : rank[i] = k]], 1, n)

\* filter_by(room_name=...)
FilterByRoom(tbl, room_name) == SelectSeq(tbl, LAMBDA m : m.room_name = room_name)

Limit(s, n) == SubSeq(s, 1, IF Len(s) < n THEN Len(s) ELSE n)

Reverse(s) == [i \in 1..Len(s) |-> s[Len(s) + 1 - i]]

\* load_recent without the reverse(): newest first
load_recent_NewestFirst(tbl, room_name) ==
    Limit(OrderByTimestampDesc(FilterByRoom(tbl, room_name)), HistoryLimit)

\* Message.query.filter_by(room_name=...).order_by(timestamp.desc())
\* .limit(50).all(), then messages.reverse()   (main.py:261-263)
load_recent(tbl, room_name) ==
    Reverse(Limit(OrderByTimestampDesc(FilterByRoom(tbl, room_name)),
                  HistoryLimit))

Ids(rows) == [i \in 1..Len(rows) |-> rows[i].id]

\* on_join from the history query on (main.py:258-268)
on_join_history(c) ==
    /\ pc[c] = "join_history"
    /\ out' = << Ev("message_history", ToSelf(c, live), NoRoom, "history", 0,
                    Ids(load_recent(messages, loc[c].room)), resolve(c)) >>
    /\ last' = Step("join_history", c, loc[c].room, resolve(c), FALSE, 0, 0)
    /\ pc' = [pc EXCEPT ![c] = "idle"]
    /\ loc' = [loc EXCEPT ![c] = Done(c)]
    /\ UNCHANGED << live, closed, session, user_room_map, typing_users_in_rooms,
                    groups, messages, clock, nsends >>

\* A join event of a connection whose earlier on_join still waits for its
\* history query: the handlers of one connection are greenlets of their
\* own, so the new on_join runs main.py:229-256 while the earlier one is
\* parked at main.py:261.
on_join_rapid(c, room_name) ==
    LET user_id == session[c]
    IN  /\ c \in live
        /\ pc[c] = "join_history"
        /\ Len(loc[c].more) < MaxPending
        /\ last' = Step("join_rapid", c, room_name, resolve(c), FALSE, 0, 0)
        /\ groups' = GroupsAfterJoin(c, room_name)
        /\ user_room_map' = [user_room_map EXCEPT ![user_id] = room_name]
        /\ out' = JoinEvents(c, room_name)
        /\ loc' = [loc EXCEPT ![c] =
                     [@ EXCEPT !.room = room_name,
                               !.more = Append(@, loc[c].room)]]
        /\ UNCHANGED << live, closed, session, typing_users_in_rooms, messages,
                        clock, nsends, pc >>

\* the history query of an earlier on_join of the connection returns
\* (main.py:258-268)
on_join_history_earlier(c) ==
    \E k \in DOMAIN loc[c].more :
        LET room_name == loc[c].more[k]
            rest == [i \in 1..(Len(loc[c].more) - 1) |->
                        loc[c].more[IF i < k THEN i ELSE i + 1]]
        IN  /\ out' = << Ev("message_history", ToSelf(c, live), NoRoom,
                            "history", 0,
                            Ids(load_recent(messages, room_name)), resolve(c)) >>
            /\ last' = Step("join_history", c, room_name, resolve(c), FALSE, 0, 0)
            /\ loc' = [loc EXCEPT ![c] = [@ EXCEPT !.more = rest]]
            /\ UNCHANGED << live, closed, session, user_room_map,
                            typing_users_in_rooms, groups, messages, clock,
                            nsends, pc >>

\* ------------------------------------------------------------ disconnect
\* handle_disconnect (main.py:271-293), then the transport drops the sid
\* from every group.  The socket is already closed when the handler runs.
handle_disconnect(c) ==
    LET user_id == session[c]
        room_name == resolve(c)
        open == live \ {c}
        typing == user_id \in typing_users_in_rooms[room_name]
        stopped == IF typing
                   THEN << Ev("typing_status",
                              ToRoomExceptSelf(groups, room_name, c, open),
                              room_name, "false", 0, <<>>, NoRoom) >>
                   ELSE <<>>
        left == Ev("status_message", ToRoom(groups, room_name, open),
                   room_name, "left", 0, <<>>, NoRoom)
    IN  /\ c \in live
        /\ live' = open
        /\ closed' = closed \cup {c}
        /\ groups' = [r \in Rooms |-> groups[r] \ {c}]
        /\ IF room_name # NoRoom
           THEN /\ user_room_map' = [user_room_map EXCEPT ![user_id] = NoRoom]
                /\ typing_users_in_rooms' =
                      [typing_users_in_rooms EXCEPT ![room_name] = @ \ {user_id}]
                /\ out' = stopped \o << left >>
                /\ last' = Step("disconnect", c, NoRoom, room_name, typing, 0, 0)
           ELSE /\ out' = <<>>
                /\ last' = Step("disconnect", c, NoRoom, NoRoom, FALSE, 0, 0)
                /\ UNCHANGED << user_room_map, typing_users_in_rooms >>
        /\ UNCHANGED << session, messages, clock, nsends, pc, loc >>

\* ---------------------------------------------------------- send_message
\* handle_message up to the INSERT that db.session.commit() flushes
\* (main.py:298-329): the row gets its primary key and the timestamp
\* default, datetime.now(), and is not yet visible to other handlers.  The
\* wait for the users query (317) is not a step of its own: between the
\* read of user_room_map (299) and the INSERT the handler reads nothing that
\* another handler writes.
handle_message(c, raw, cap) ==
    LET user_id == session[c]
        room_name == resolve(c)
        content == strip(raw)
        over == len(content) > MaxContentLen
        stored == IF over THEN Truncate(content) ELSE content
        too_long == IF over THEN << ErrorEv(c, "too_long") >> ELSE <<>>
        was == room_name # NoRoom /\ user_id \in typing_users_in_rooms[room_name]
    IN  /\ c \in live
        /\ pc[c] = "idle"
        /\ IF user_id = NoUser \/ room_name = NoRoom \/ content = <<>>
           THEN /\ out' = << ErrorEv(c, "empty_or_session") >>
                /\ last' = Step("send", c, NoRoom, room_name, was, len(content), 0)
                /\ UNCHANGED << pc, loc, nsends, clock >>
           ELSE IF user_id \notin users
           THEN /\ out' = too_long \o << ErrorEv(c, "user_not_found") >>
                /\ last' = Step("send", c, NoRoom, room_name, was, len(content), 0)
                /\ UNCHANGED << pc, loc, nsends, clock >>
           ELSE /\ nsends < cap
                /\ nsends' = nsends + 1
                /\ clock' = clock + 1
                /\ out' = too_long
                /\ last' = Step("send", c, NoRoom, room_name, was, len(content),
                                clock)
                /\ pc' = [pc EXCEPT ![c] = "send_commit"]
                /\ loc' = [loc EXCEPT ![c] =
                             [room |-> room_name, rawlen |-> len(content),
                              was |-> was,
                              row |-> Message(clock, room_name, user_id,
                                              stored, clock),
                              more |-> loc[c].more]]
        /\ UNCHANGED << live, closed, session, user_room_map,
                        typing_users_in_rooms, groups, messages >>

\* A send_message event that reaches the server under the sid of a socket
\* that has closed.  Handlers are registered with @socketio.on
\* (main.py:295), and the transport calls a handler only for a sid it has a
\* session for: the event is dropped and handle_message does not run.
send_message_closed(c, raw) ==
    /\ c \in closed
    /\ out' = <<>>
    /\ last' = Step("send_closed", c, NoRoom, resolve(c), FALSE,
                    len(strip(raw)), 0)
    /\ UNCHANGED << live, closed, session, user_room_map,
                    typing_users_in_rooms, groups, messages, clock, nsends,
                    pc, loc >>

\* the table after a broadcast that did not wait for the row to be stored
TableAfterCommit_NotStored(c) == messages

\* db.session.commit() returns: the row is in the table (main.py:328-329)
TableAfterCommit(c) == Append(messages, loc[c].row)

\* the COMMIT succeeds: the row is stored, then serialised and broadcast
\* (main.py:329-335)
handle_message_commit(c) ==
    /\ pc[c] = "send_commit"
    /\ messages' = TableAfterCommit(c)
    /\ out' = << Ev("new_message", ToRoom(groups, loc[c].room, live),
                    loc[c].room, "message", loc[c].row.id, <<>>, resolve(c)) >>
    /\ last' = Step("send_commit", c, NoRoom, loc[c].room, loc[c].was,
                    loc[c].rawlen, loc[c].row.id)
    /\ pc' = [pc EXCEPT ![c] = "idle"]
    /\ loc' = [loc EXCEPT ![c] = Done(c)]
    /\ UNCHANGED << live, closed, session, user_room_map, typing_users_in_rooms,
                    groups, clock, nsends >>

\* the INSERT or the COMMIT raises: rollback, error to the sender
\* (main.py:337-341)
handle_message_rollback(c) ==
    /\ pc[c] = "send_commit"
    /\ out' = << ErrorEv(c, "save_failed") >>
    /\ last' = Step("send_rollback", c, NoRoom, loc[c].room, loc[c].was,
                    loc[c].rawlen, loc[c].row.id)
    /\ pc' = [pc EXCEPT ![c] = "idle"]
    /\ loc' = [loc EXCEPT ![c] = Done(c)]
    /\ UNCHANGED << live, closed, session, user_room_map, typing_users_in_rooms,
                    groups, messages, clock, nsends >>

\* ------------------------------------------------------------------ typing
\* handle_start_typing (main.py:346-366)
handle_start_typing(c) ==
    LET user_id == session[c]
        room_name == resolve(c)
    IN  /\ c \in live
        /\ IF user_id = NoUser \/ room_name = NoRoom
           THEN /\ out' = <<>>
                /\ last' = Step("start_typing", c, NoRoom, NoRoom, FALSE, 0, 0)
                /\ UNCHANGED typing_users_in_rooms
           ELSE /\ typing_users_in_rooms' =
                      [typing_users_in_rooms EXCEPT ![room_name] = @ \cup {user_id}]
                /\ out' = << Ev("typing_status",
                                ToRoomExceptSelf(groups, room_name, c, live),
                                room_name, "true", 0, <<>>, room_name) >>
                /\ last' = Step("start_typing", c, NoRoom, room_name,
                                user_id \in typing_users_in_rooms[room_name], 0, 0)
        /\ UNCHANGED << live, closed, session, user_room_map, groups, messages,
                        clock, nsends, pc, loc >>

\* handle_stop_typing (main.py:368-384)
handle_stop_typing(c) ==
    LET user_id == session[c]
        room_name == resolve(c)
    IN  /\ c \in live
        /\ IF user_id = NoUser \/ room_name = NoRoom
           THEN /\ out' = <<>>
                /\ last' = Step("stop_typing", c, NoRoom, NoRoom, FALSE, 0, 0)
                /\ UNCHANGED typing_users_in_rooms
           ELSE /\ typing_users_in_rooms' =
                      [typing_users_in_rooms EXCEPT ![room_name] = @ \ {user_id}]
                /\ out' = << Ev("typing_status",
                                ToRoomExceptSelf(groups, room_name, c, live),
                                room_name, "false", 0, <<>>, room_name) >>
                /\ last' = Step("stop_typing", c, NoRoom, room_name,
                                user_id \in typing_users_in_rooms[room_name], 0, 0)
        /\ UNCHANGED << live, closed, session, user_room_map, groups, messages,
                        clock, nsends, pc, loc >>

\* ---------------------------------------------------------- behaviours
\* connections, rooms and messages: clients send the contents raws, and at
\* most cap sends reach the INSERT
RoomsAndMessages(raws, cap) ==
    \/ \E c \in Conns : Connect(c)
    \/ \E c \in Conns, r \in Rooms \cup {NoRoom} : on_join(c, r)
    \/ \E c \in Conns : on_join_history(c)
    \/ \E c \in Conns : handle_disconnect(c)
    \/ \E c \in Conns, raw \in raws : handle_message(c, raw, cap)
    \/ \E c \in Conns : handle_message_commit(c)
    \/ \E c \in Conns : handle_message_rollback(c)

Typing ==
    \/ \E c \in Conns : handle_start_typing(c)
    \/ \E c \in Conns : handle_stop_typing(c)

\* events that arrive under the sid of a closed socket
Stale == \E c \in Conns, raw \in PlainContents : send_message_closed(c, raw)

Next == RoomsAndMessages(PlainContents, MaxSends) \/ Typing \/ Stale

\* every handler; messages of at most 500 characters
Spec == Init /\ [][Next]_vars

\* Clients that send no typing events, so that two sends can race, and that
\* send oversized messages too.  The typing handlers write
\* typing_users_in_rooms and nothing else, and only they and
\* handle_disconnect read it.
SpecRace == Init /\ [][RoomsAndMessages(RawContents, MaxRaceSends)]_vars

\* joins of a connection that overlap an earlier join of the same connection
Rapid ==
    \/ \E c \in Conns, r \in Rooms : on_join_rapid(c, r)
    \/ \E c \in Conns : on_join_history_earlier(c)

\* Clients that send no typing events and whose joins may overlap.
SpecRapid == Init /\ [][RoomsAndMessages(PlainContents, MaxSends) \/ Rapid]_vars

\* The same clients over a table that already holds a page of history.
SpecBacklog == InitBacklog /\ [][RoomsAndMessages(RawContents, MaxSends)]_vars

\* ------------------------------------------------------------------ claims
\* the events of the last step that carry the given event name
EventsNamed(name) == {i \in 1..Len(out) : out[i].event = name}

\* the rooms whose broadcast group holds the connection
RoomsOf(c) == {r \in Rooms : c \in groups[r]}

\* C1: no connection is bound to two rooms at the same instant: every
\* connection is a member of at most one room's broadcast group.
C1_AtMostOneRoom == \A c \in Conns : Cardinality(RoomsOf(c)) <= 1

C3_OversizeNotStored ==
    last.op = "send_commit" => last.rawlen <= MaxContentLen

StoredIds == {messages[i].id : i \in DOMAIN messages}

\* C4: a new_message is broadcast if and only if the commit succeeded: every
\* new_message names a stored row and is emitted by the step whose commit
\* succeeded, which emits exactly that one event; a failed commit stores
\* nothing, emits no new_message and sends one error_message, to the sender
\* alone.
C4_BroadcastIffCommitted ==
    /\ \A i \in EventsNamed("new_message") :
          out[i].msg \in StoredIds /\ last.op = "send_commit"
    /\ last.op = "send_commit"
          => /\ last.msg \in StoredIds
             /\ Len(out) = 1
             /\ out[1].event = "new_message" /\ out[1].msg = last.msg
    /\ last.op = "send_rollback"
          => /\ last.msg \notin StoredIds
             /\ Len(out) = 1
             /\ out[1].event = "error_message"
             /\ out[1].to = {last.conn} \cap live

\* a commit has just succeeded and its row was broadcast to somebody
C4_Witness ==
    /\ last.op = "send_commit"
    /\ out[1].event = "new_message" /\ out[1].to # {}
    /\ out[1].msg \in StoredIds

\* a commit has just failed and the sender was told
C4_WitnessRollback ==
    /\ last.op = "send_rollback"
    /\ out[1].event = "error_message" /\ out[1].to = {last.conn}

\* C5: an accepted send from a connection bound to room R is delivered to
\* every open connection in R's group, to nobody else, and to the sender
\* itself.
C5_DeliveredToRoomAndSender ==
    (last.op = "send_commit" /\ last.conn \in live)
    => /\ out[1].to = groups[last.old] \cap live
       /\ last.conn \in out[1].to

\* the row with the given primary key
RowById(id) == messages[CHOOSE i \in DOMAIN messages : messages[i].id = id]

\* C6: the history step of a join to room R sends one message_history, to
\* the joining connection and nobody else; it holds min(50, n) of the n rows
\* stored for R, each a row of R, in strictly ascending time order, and no
\* row of R left out is newer than a row it holds.  With no row for R it is
\* empty, and no error is sent.
C6_HistoryIsRecentPage ==
    last.op = "join_history"
    => LET R == last.arg
           rowsOfR == {messages[i] : i \in {j \in DOMAIN messages :
                                               messages[j].room_name = R}}
           n == Cardinality(rowsOfR)
           hist == out[1].hist
           sent == [i \in DOMAIN hist |-> RowById(hist[i])]
           sentRows == {sent[i] : i \in DOMAIN sent}
       IN  /\ Len(out) = 1
           /\ out[1].event = "message_history"
           /\ out[1].to = {last.conn} \cap live
           /\ Len(hist) = IF n < HistoryLimit THEN n ELSE HistoryLimit
           /\ sentRows \subseteq rowsOfR
           /\ \A i \in 1..(Len(hist) - 1) :
                 sent[i].timestamp < sent[i + 1].timestamp
           /\ hist # <<>>
                 => \A m \in rowsOfR \ sentRows :
                       m.timestamp < sent[1].timestamp

\* a join received a full page of a room that holds more than a page
C6_Witness ==
    /\ last.op = "join_history" /\ last.arg = "A" /\ last.conn \in live
    /\ Len(out[1].hist) = HistoryLimit
    /\ Len(FilterByRoom(messages, "A")) > HistoryLimit
    /\ out[1].to = {last.conn}

\* a join to a room with no stored message received an empty history
C6_WitnessEmpty ==
    /\ last.op = "join_history" /\ last.arg = "B" /\ last.conn \in live
    /\ out[1].hist = <<>> /\ out[1].to = {last.conn}

Last(s) == s[Len(s)]

\* C7: right after a successful send to room R, a history load for R has
\* that message as its last entry.
C7_SentIsLastInHistory ==
    last.op = "send_commit"
    => Last(Ids(load_recent(messages, last.old))) = last.msg

\* C8: a start_typing from a user already in the room's typing set
\* broadcasts nothing, and a successful send by a user in the typing set
\* broadcasts one typing_status with is_typing false.
C8_TypingEdgeTriggered ==
    /\ (last.op = "start_typing" /\ last.was) => out = <<>>
    /\ (last.op = "send_commit" /\ last.was)
          => \E i \in EventsNamed("typing_status") : out[i].tag = "false"

\* C9: a stop_typing from a user who is not in the room's typing set
\* broadcasts no typing_status, and no typing_status is ever addressed to
\* its sender.
C9_StopOnlyOnTransition ==
    /\ (last.op = "stop_typing" /\ ~last.was) => EventsNamed("typing_status") = {}
    /\ \A i \in EventsNamed("typing_status") : last.conn \notin out[i].to

\* C10: right after a successful send by a user who was in the typing set
\* of room R when the send arrived, the user is not in R's typing set.
C10_SendClearsTyping ==
    (last.op = "send_commit" /\ last.was)
    => session[last.conn] \notin typing_users_in_rooms[last.old]

\* C11: no typing entry dangles: every user in the typing set of room R has
\* an open connection whose registry entry records R.
C11_NoDanglingTyping ==
    \A r \in Rooms : \A u \in typing_users_in_rooms[r] :
        \E c \in live : session[c] = u /\ resolve(c) = r

\* C13: once a connection is closed, a send of that connection that was in
\* flight stores no row, broadcasts no new_message and emits no
\* error_message.
C13_DisconnectWinsRace ==
    (last.op \in {"send_commit", "send_rollback"} /\ last.conn \in closed)
    => /\ last.msg \notin StoredIds
       /\ EventsNamed("new_message") = {}
       /\ EventsNamed("error_message") = {}

\* C15: a join to room R by a connection whose registry entry already
\* records R emits nothing (no "left", no second "joined") and leaves the
\* registry entry at R.
C15_RejoinIsNoOp ==
    (last.op = "join" /\ last.arg # NoRoom /\ last.old = last.arg)
    => /\ EventsNamed("status_message") = {}
       /\ resolve(last.conn) = last.arg

\* C16: a join without a user identity or without a room name emits no
\* event at all, error_message included.
C16_BadJoinIsSilent ==
    (last.op = "join" /\ (session[last.conn] = NoUser \/ last.arg = NoRoom))
    => out = <<>>

\* C17: every stored row has content that is not empty and at most 500
\* characters long, and the row a send has just stored holds the stripped
\* content as submitted: as long as what the client sent.
C17_StoredIsSubmitted ==
    /\ \A i \in DOMAIN messages :
          /\ messages[i].content # <<>>
          /\ len(messages[i].content) <= MaxContentLen
    /\ last.op = "send_commit"
          => len(RowById(last.msg).content) = last.rawlen

\* C19: group membership agrees with the registry: an open connection is a
\* member of the broadcast group of room R exactly when the registry entry
\* that resolves the connection records R.
C19_GroupsAgreeWithRegistry ==
    \A c \in live : \A r \in Rooms : (c \in groups[r]) <=> (resolve(c) = r)

C18_WitnessTyping ==
    /\ last.op \in {"start_typing", "stop_typing"} /\ last.old = NoRoom
    /\ session[last.conn] # NoUser /\ live = Conns
    /\ out = <<>>

\* C20: a join or a disconnect of one connection leaves the room binding
\* of every other open connection as it was: a connection that is a member
\* of the group of the room it resolves to still resolves to that room.
C20_OthersBindingKept ==
    [][ last'.op \in {"join", "disconnect"}
        => \A c \in (live \cap live') \ {last'.conn} :
              (resolve(c) # NoRoom /\ c \in groups[resolve(c)])
              => resolve(c)' = resolve(c)
      ]_vars

C12_WitnessStale ==
    /\ last.op = "send_closed" /\ last.conn \in closed
    /\ last.rawlen > 0 /\ last.old # NoRoom
    /\ messages = <<>> /\ out = <<>>

\* C14: a join of a connection that arrives while an earlier join of the
\* same connection is still being handled leaves the connection in exactly
\* one room, the one just asked for, which the registry records, and emits
\* one "left" status exactly when the connection was taken out of another
\* room's group.
C14_RapidJoinsSerialized ==
    last.op = "join_rapid"
    => LET left == {i \in EventsNamed("status_message") : out[i].tag = "left"}
       IN  /\ RoomsOf(last.conn) = {last.arg}
           /\ resolve(last.conn) = last.arg
           /\ Cardinality(left) = IF last.old = last.arg THEN 0 ELSE 1
           /\ \A i \in left : out[i].room = last.old

\* the same for connections that share their user with no other connection
C14_SerializedWhenAlone ==
    (\A c \in Conns \ {last.conn} : session[c] # session[last.conn])
    => C14_RapidJoinsSerialized

====
